---- MODULE Spec2Model ----
(***************************************************************************)
(* The form-fill / stabilization / extraction pipeline of the revdisp      *)
(* scrapers, as a state machine of one scrape call.                        *)
(*                                                                         *)
(* Two implementations of the pipeline live in the repository and both are *)
(* modelled; the variable impl says which one runs:                        *)
(*   "QCS"  QuebecCalculatorScraper (python-scraper/calculator_scraper.py) *)
(*   "MFQ"  MFQScraperSimple        (python-scraper/mfq_scraper_simple.py) *)
(*                                                                         *)
(* The target page is an opaque collaborator.  Its answers to the driver   *)
(* calls of the form filler are drawn with \E in the actions (a call may   *)
(* find no control, raise, or read back another value than the one         *)
(* written); budget bounds how many controls misbehave in one call.  What  *)
(* the page shows in its output controls is fixed when the call starts:    *)
(* script is the sequence of values the polled control shows at successive *)
(* polls, page names what the output controls and the table cells show.    *)
(***************************************************************************)
EXTENDS Integers, Sequences, FiniteSets, TLC

\* ------------------------------------------------------------- bounds

\* Longest children list and largest declared count enumerated (the form has 5 slots).
MaxChildren == 6

\* Number of controls that may misbehave during one scrape call.
MaxFaults == 1

\* Number of polls that fit in max_wait (10 s at one poll per 0.5 s is at most 20).
MaxPolls == 5

\* ------------------------------------------------------------- strings

Digit == <<"0", "1", "2", "3", "4", "5", "6", "7", "8", "9">>

\* Python's str() of a non-negative int.
RECURSIVE str(_)
str(n) == IF n < 10 THEN Digit[n + 1] ELSE str(n \div 10) \o Digit[(n % 10) + 1]

\* ------------------------------------------------------------- household

Person(age, work, retirement, retired) ==
    [age |-> age, grossWorkIncome |-> work,
     grossRetirementIncome |-> retirement, isRetired |-> retired]

\* An optional value (a key that may be missing, a reference that may be None)
\* is <<>> when missing and <<v>> when present.
None == <<>>
Some(v) == <<v>>

Child(age, expenses, ctype) ==
    [age |-> age, childcare_expenses |-> expenses, childcare_type |-> ctype]

Household(type, primary, spouse, children, num, year) ==
    [householdType |-> type, primaryPerson |-> primary, spouse |-> spouse,
     children |-> children, numChildren |-> num, taxYear |-> year]

HouseholdTypes ==
    {"single", "couple", "single_parent", "retired_single", "retired_couple"}

TaxYears == {2024, 2025}

PrimaryPersons ==
    {Person(35, w, r, ret) : w \in {0, 15000}, r \in {0, 25000}, ret \in BOOLEAN}

Spouses ==
    {None} \cup {Some(Person(33, 20000, 18000, ret)) : ret \in BOOLEAN}

\* A child that declares everything, and one that declares its age only.
ChildFull == Child(Some(4), Some(2000), Some("CPE"))
ChildBare == Child(Some(7), None, None)

\* The children lists enumerated: every length 0..MaxChildren, the odd slots
\* of one kind and the even slots of another.
ChildrenOf(n, odd, even) ==
    [i \in 1..n |-> IF i % 2 = 1 THEN odd ELSE even]

ChildrenLists ==
    {ChildrenOf(n, a, b) : n \in 0..MaxChildren,
                           a \in {ChildFull, ChildBare}, b \in {ChildBare}}

\* The values enumerated for numChildren.
DeclaredCounts == {0, 2, MaxChildren}

\* Every household enumerated for the form filler.
Households ==
    {Household(t, p, s, c, n, 2024) :
        t \in HouseholdTypes, p \in PrimaryPersons, s \in Spouses,
        c \in ChildrenLists, n \in DeclaredCounts}

\* The end-to-end household of the specification: one adult, 35, work income
\* 15000, no spouse, no children (test_verification.py builds the same shape).
SingleAdult(year) ==
    Household("single", Person(35, 15000, 0, FALSE), None, <<>>, 0, year)

\* A few households of every shape, for the calls in which the page misbehaves.
SampleHouseholds ==
    {SingleAdult(y) : y \in TaxYears}
    \cup {Household("retired_single", Person(35, 15000, 25000, TRUE), None, <<>>, 0, 2024),
          Household("couple", Person(35, 0, 25000, TRUE),
                    Some(Person(33, 20000, 18000, TRUE)), <<>>, 0, 2025),
          Household("single_parent", Person(35, 15000, 0, FALSE), None,
                    ChildrenOf(2, ChildFull, ChildBare), 2, 2024),
          Household("couple", Person(35, 15000, 0, FALSE),
                    Some(Person(33, 20000, 18000, FALSE)),
                    ChildrenOf(MaxChildren, ChildBare, ChildBare), MaxChildren, 2025)}

\* ------------------------------------------------------------- field mapper

\* QuebecCalculatorScraper._map_household_type: the label is looked up from
\* the declared householdType, an unknown type falling back to the single label.
_map_household_type(household_type) ==
    CASE household_type = "single"         -> "Personne vivant seule"
      [] household_type = "single_parent"  -> "Famille monoparentale"
      [] household_type = "couple"         -> "Couple"
      [] household_type = "retired_single" -> "Retraité vivant seul"
      [] household_type = "retired_couple" -> "Couple de retraités"
      [] OTHER                             -> "Personne vivant seule"

\* MFQScraperSimple.fill_form: the label is resolved from the household facts.
has_spouse(household) == household.spouse # None

has_children(household) == household.numChildren > 0

situation_label(household) ==
    IF has_spouse(household)
    THEN IF household.primaryPerson.isRetired /\ household.spouse[1].isRetired
         THEN "Couple de retraités"
         ELSE "Couple"
    ELSE IF household.primaryPerson.isRetired THEN "Retraité vivant seul"
         ELSE IF has_children(household) THEN "Famille monoparentale"
         ELSE "Personne vivant seule"

\* The label each implementation selects in the situation control.
SituationOf(implementation, household) ==
    IF implementation = "QCS"
    THEN _map_household_type(household.householdType)
    ELSE situation_label(household)

\* The same figure, had the work income been written whatever isRetired says.
revenus_workOnly(person) == person.grossWorkIncome

\* QuebecCalculatorScraper._fill_form: the income figure written for a person.
revenus(person) ==
    IF person.isRetired THEN person.grossRetirementIncome
    ELSE person.grossWorkIncome

\* MFQScraperSimple.fill_form: the income figure written for a person.
income_to_use(person) ==
    IF person.isRetired THEN person.grossRetirementIncome
    ELSE person.grossWorkIncome

IncomeOf(implementation, person) ==
    IF implementation = "QCS" THEN revenus(person) ELSE income_to_use(person)

\* QuebecCalculatorScraper._fill_form: len(children) if children else numChildren.
num_children(household) ==
    IF household.children # <<>> THEN Len(household.children)
    ELSE household.numChildren

\* The same options, had there been one for six children.
children_options_withSix ==
    [n \in 1..6 |->
        CASE n = 1 -> "Un enfant"   [] n = 2 -> "Deux enfants"
          [] n = 3 -> "Trois enfants" [] n = 4 -> "Quatre enfants"
          [] n = 5 -> "Cinq enfants" [] n = 6 -> "Six enfants"]

\* QuebecCalculatorScraper._fill_form: the options of the children-count control.
children_options ==
    [n \in 1..5 |->
        CASE n = 1 -> "Un enfant"   [] n = 2 -> "Deux enfants"
          [] n = 3 -> "Trois enfants" [] n = 4 -> "Quatre enfants"
          [] n = 5 -> "Cinq enfants"]

\* The same option, had the count been written as it is for no child too.
nb_enfants_count(n) == str(n)

\* MFQScraperSimple.fill_form: the option selected in the children-count control.
nb_enfants_option(n) == IF n = 0 THEN "Aucun enfant" ELSE str(n)

\* ------------------------------------------------------------- form events

\* One driver interaction with a form control: op on the control whose
\* element id is ctl, with the value val.
Event(op, ctl, val) == [op |-> op, ctl |-> ctl, val |-> val]

\* The element ids of the form.
AdultIds == {"Revenu1", "AgeAdulte1", "Revenu2", "AgeAdulte2"}
SpouseIds == {"Revenu2", "AgeAdulte2"}
ChildIds ==
    {p \o str(k) : p \in {"AgeEnfant", "Frais", "type_garde"}, k \in 1..MaxChildren}
ControlIds == {"Situation", "NbEnfants"} \cup AdultIds \cup ChildIds

\* selector.replace('#', '') on the selectors '#<id>' the form filler builds.
StripHash(selector) == CHOOSE id \in ControlIds : selector = "#" \o id

\* The ops that change a control (everything but locating it and reading it back).
WriteOps == {"select", "clear", "send_keys", "js_set", "js_clear", "js_notify", "tab"}

\* ------------------------------------------------------------- robust field setter

\* What the page answers during one call of _fill_field: raiseAt is the driver
\* call that raises (0: none; 1 find_element, 2 clear, 3 send_keys,
\* 4 get_attribute, then 5 send_keys(TAB) on the standard route, or
\* 5 the value script, 6 the change script, 7 get_attribute on the scripted
\* route), read1 and read2 the values the two read-backs return.
FieldEnv(raiseAt, read1, read2) ==
    [raiseAt |-> raiseAt, read1 |-> read1, read2 |-> read2]

\* The value a control holds when the page ignored the write.
Ignored == ""

\* The driver calls one field takes, cut where call raiseAt raises (0: none).
\* A find_element that raises is kept, as the attempt that found nothing.
Completed(calls, raiseAt) ==
    IF raiseAt = 0 \/ raiseAt > Len(calls) THEN calls
    ELSE IF raiseAt = 1 THEN <<[calls[1] EXCEPT !.val = "missing"]>>
    ELSE SubSeq(calls, 1, raiseAt - 1)

\* The same calls, had the scripted route been taken whatever the read-back.
FieldCalls_alwaysScripted(selector, value, env) ==
    LET id == StripHash(selector)
    IN  <<Event("find", id, "found"),
          Event("clear", id, ""),
          Event("send_keys", id, value),
          Event("read", id, env.read1),
          Event("js_set", id, value),
          Event("js_notify", id, StripHash(selector)),
          Event("read", id, env.read2)>>

\* The same calls, had the TAB key been sent after the scripts as well.
FieldCalls_tabAfterScripts(selector, value, env) ==
    LET id == StripHash(selector)
    IN  <<Event("find", id, "found"),
          Event("clear", id, ""),
          Event("send_keys", id, value),
          Event("read", id, env.read1)>>
        \o (IF env.read1 # value
            THEN <<Event("js_set", id, value),
                   Event("js_notify", id, StripHash(selector)),
                   Event("read", id, env.read2)>>
            ELSE <<>>)
        \o <<Event("tab", id, "")>>

\* The driver calls _fill_field makes when none raises: the standard write and
\* its read-back, then the TAB key when the read-back is the value, and
\* otherwise the two scripts and a second read-back.
FieldCalls(selector, value, env) ==
    LET id == StripHash(selector)
    IN  <<Event("find", id, "found"),
          Event("clear", id, ""),
          Event("send_keys", id, value),
          Event("read", id, env.read1)>>
        \o (IF env.read1 # value
            THEN <<Event("js_set", id, value),
                   Event("js_notify", id, StripHash(selector)),
                   Event("read", id, env.read2)>>
            ELSE <<Event("tab", id, "")>>)

\* QuebecCalculatorScraper._fill_field(selector, value) against a page that
\* answers env: the driver calls that completed, in order, and what the
\* setter reports (it prints, and returns nothing): "standard" and
\* "javascript" are its two confirmations, "unconfirmed" the value still
\* wrong after the fallback, "error" the except branch.
_fill_field(selector, value, env) ==
    LET raised == env.raiseAt # 0
        actual_value == IF env.read1 # value THEN env.read2 ELSE env.read1
    IN  [selector |-> selector, value |-> value,
         trace |-> Completed(FieldCalls(selector, value, env), env.raiseAt),
         report |-> IF raised THEN "error"
                    ELSE IF env.read1 = value THEN "standard"
                    ELSE IF actual_value # value THEN "unconfirmed"
                    ELSE "javascript"]

\* _fill_field of the scraper in src/calculator_scraper.py, whose text is the
\* same line for line.
root_fill_field(selector, value, env) ==
    LET raised == env.raiseAt # 0
        actual_value == IF env.read1 # value THEN env.read2 ELSE env.read1
    IN  [selector |-> selector, value |-> value,
         trace |-> Completed(FieldCalls(selector, value, env), env.raiseAt),
         report |-> IF raised THEN "error"
                    ELSE IF env.read1 = value THEN "standard"
                    ELSE IF actual_value # value THEN "unconfirmed"
                    ELSE "javascript"]

\* The answers enumerated for one call: the page that accepts the write, and,
\* while the call's budget of misbehaving controls lasts, every other one.
FieldEnvs(value, left) ==
    {FieldEnv(0, value, value)}
    \cup (IF left = 0 THEN {}
          ELSE {FieldEnv(k, value, value) : k \in 1..5}
               \cup {FieldEnv(k, Ignored, r) : k \in {0, 5, 6, 7}, r \in {value, Ignored}})

\* 1 when the page misbehaved during the call, 0 when it accepted the write.
FieldCost(value, env) == IF env = FieldEnv(0, value, value) THEN 0 ELSE 1

\* ------------------------------------------------------------- state

VARIABLES
    impl,           \* which scraper runs: "QCS" or "MFQ"
    household,      \* household_data, the argument of the scrape call
    script,         \* what the polled output control shows, poll after poll
    page,           \* the page the driver is on: what its output controls and cells show
    pc,             \* the position of the scrape call
    log,            \* the driver interactions with the form, in order
    call,           \* the last _fill_field call: selector, value, trace, report
    budget,         \* how many more controls may misbehave
    i,              \* the child slot being filled
    previous_value, \* _wait_for_calculation_complete
    stable_count,   \* _wait_for_calculation_complete
    elapsed,        \* polls made so far by _wait_for_calculation_complete
    stable,         \* what _wait_for_calculation_complete returned
    results,        \* the mapping under construction in the extractor
    result,         \* what the scrape call returned
    earlier         \* how the calls made before on the same scraper ended

\* What one scrape call is given, the outcome of the calls before it
\* included: it never changes during the call.
given == <<impl, household, script, page, earlier>>

vars == <<given, pc, log, call, budget, i, previous_value,
          stable_count, elapsed, stable, results, result>>

\* No _fill_field call yet.
NoCall == [selector |-> "", value |-> "", trace |-> <<>>, report |-> "none"]

\* A mapping with no key.
Empty == <<>>

\* ------------------------------------------------------------- scrape call

\* The same branch, had it kept a figure next to the error.
ErrorMapping_withFigure(implementation, e) ==
    ("error" :> e) @@ ("revenu_disponible" :> <<0, 0>>)

\* The except branch of the scrape call: the mapping it returns for exception e.
\* QuebecCalculatorScraper.scrape_calculator returns {"error": str(e)},
\* MFQScraperSimple.scrape returns {'error': str(e), 'success': False}.
ErrorMapping(implementation, e) ==
    IF implementation = "QCS" THEN "error" :> e
    ELSE ("error" :> e) @@ ("success" :> FALSE)

\* An exception e reaches the except branch of the scrape call.
Raise(e) ==
    /\ pc' = "done"
    /\ result' = ErrorMapping(impl, e)

\* Whether a driver call made outside _fill_field succeeds; it may fail while
\* the budget lasts.
Answers == IF budget > 0 THEN {"ok", "raise"} ELSE {"ok"}

Spend(answer) == budget' = IF answer = "ok" THEN budget ELSE budget - 1

\* scrape_calculator / scrape: driver.get, the cookie banner (whose every
\* failure is swallowed), then the wait for the situation selector.
Navigate ==
    /\ pc = "start"
    /\ \E answer \in Answers :
        /\ Spend(answer)
        /\ IF answer = "raise"
           THEN Raise("navigation failed")
           ELSE pc' = "await_form" /\ UNCHANGED result
    /\ UNCHANGED <<given, log, call, i, previous_value,
                   stable_count, elapsed, stable, results>>

\* The same step, had the situation selector been set before it was waited for.
AwaitForm_afterSelecting ==
    /\ pc = "await_form"
    /\ log' = Append(log, Event("select", "Situation",
                                _map_household_type(household.householdType)))
    /\ \E answer \in Answers :
        /\ Spend(answer)
        /\ IF answer = "raise"
           THEN Raise("timeout: Situation")
           ELSE pc' = "situation" /\ UNCHANGED result
    /\ UNCHANGED <<given, call, i, previous_value,
                   stable_count, elapsed, stable, results>>

\* WebDriverWait(...).until(presence_of_element_located((By.ID, "Situation"))):
\* a TimeoutException when the selector never appears.
AwaitForm ==
    /\ pc = "await_form"
    /\ \E answer \in Answers :
        /\ Spend(answer)
        /\ IF answer = "raise"
           THEN Raise("timeout: Situation")
           ELSE pc' = "situation" /\ UNCHANGED result
    /\ UNCHANGED <<given, log, call, i, previous_value,
                   stable_count, elapsed, stable, results>>

\* ------------------------------------------------------------- form filler (QCS)

\* What stays as it is while the form is being filled.
FillFrame ==
    UNCHANGED <<given, previous_value, stable_count,
                elapsed, stable, results>>

\* _fill_form, step 1: the situation selector.  find_element or the selection
\* may raise, which _fill_form lets through.
QCS_fill_situation ==
    /\ impl = "QCS" /\ pc = "situation"
    /\ \E answer \in Answers :
        /\ Spend(answer)
        /\ IF answer = "raise"
           THEN Raise("no such element: Situation") /\ UNCHANGED log
           ELSE /\ log' = Append(log, Event("select", "Situation",
                                  _map_household_type(household.householdType)))
                /\ pc' = "revenu1"
                /\ UNCHANGED result
    /\ UNCHANGED <<call, i>>
    /\ FillFrame

\* The same call, had _fill_form let the setter's failure through.
FillField_fatal(selector, value, next) ==
    \E env \in FieldEnvs(value, budget) :
        LET outcome == _fill_field(selector, value, env)
        IN  /\ call' = outcome
            /\ log' = log \o outcome.trace
            /\ budget' = budget - FieldCost(value, env)
            /\ IF outcome.report \in {"error", "unconfirmed"}
               THEN Raise("field not set: " \o selector)
               ELSE pc' = next /\ UNCHANGED result

\* One call of _fill_field from _fill_form, which goes on at next whatever the
\* setter reports.
FillField(selector, value, next) ==
    \E env \in FieldEnvs(value, budget) :
        LET outcome == _fill_field(selector, value, env)
        IN  /\ call' = outcome
            /\ log' = log \o outcome.trace
            /\ budget' = budget - FieldCost(value, env)
            /\ pc' = next
            /\ UNCHANGED result

\* _fill_form, steps 2 and 3: the primary person's income and age.
QCS_fill_revenu1 ==
    /\ impl = "QCS" /\ pc = "revenu1"
    /\ FillField("#Revenu1", str(revenus(household.primaryPerson)), "age1")
    /\ UNCHANGED i
    /\ FillFrame

QCS_fill_age1 ==
    /\ impl = "QCS" /\ pc = "age1"
    /\ FillField("#AgeAdulte1", str(household.primaryPerson.age),
                 IF household.spouse # None THEN "revenu2" ELSE "children")
    /\ UNCHANGED i
    /\ FillFrame

\* _fill_form, step 4: the spouse, when there is one.
QCS_fill_revenu2 ==
    /\ impl = "QCS" /\ pc = "revenu2"
    /\ FillField("#Revenu2", str(revenus(household.spouse[1])), "age2")
    /\ UNCHANGED i
    /\ FillFrame

QCS_fill_age2 ==
    /\ impl = "QCS" /\ pc = "age2"
    /\ FillField("#AgeAdulte2", str(household.spouse[1].age), "children")
    /\ UNCHANGED i
    /\ FillFrame

\* _fill_form, step 5: the children-count selector.  Nothing is done for no
\* child; a count outside children_options is only reported; find_element or
\* the selection may raise, which the handler re-raises.
QCS_fill_children ==
    /\ impl = "QCS" /\ pc = "children"
    /\ LET n == num_children(household)
       IN  IF n > 0
           THEN \E answer \in Answers :
                   /\ Spend(answer)
                   /\ IF answer = "raise"
                      THEN Raise("no such element: NbEnfants") /\ UNCHANGED <<log, i>>
                      ELSE /\ log' = IF n \in DOMAIN children_options
                                     THEN Append(log, Event("select", "NbEnfants",
                                                            children_options[n]))
                                     ELSE log
                           /\ i' = 1
                           /\ pc' = IF household.children # <<>> THEN "child" ELSE "filled"
                           /\ UNCHANGED result
           ELSE pc' = "filled" /\ UNCHANGED <<log, i, budget, result>>
    /\ UNCHANGED call
    /\ FillFrame

\* _fill_form, the loop over the children: the age of child i, at most 5.
QCS_fill_child ==
    /\ impl = "QCS" /\ pc = "child"
    /\ IF i > Len(household.children) \/ i > 5
       THEN pc' = "filled" /\ UNCHANGED <<log, call, budget, i, result>>
       ELSE /\ FillField("#AgeEnfant" \o str(i),
                         str(IF household.children[i].age # None
                             THEN household.children[i].age[1] ELSE 0),
                         "child")
            /\ i' = i + 1
    /\ FillFrame

\* ------------------------------------------------------------- form filler (MFQ)

\* MFQScraperSimple.fill_form writes a field with find_element, a script that
\* empties it and send_keys; raiseAt is the call that raises (0: none).
DirectWrite(id, value, raiseAt) ==
    Completed(<<Event("find", id, "found"),
                Event("js_clear", id, ""),
                Event("send_keys", id, value)>>, raiseAt)

\* A Select on a control, then select_by_visible_text when an option is given.
DirectSelect(id, option, raiseAt) ==
    Completed(<<Event("find", id, "found")>>
              \o (IF option # None THEN <<Event("select", id, option[1])>> ELSE <<>>),
              raiseAt)

DirectAnswers(last) == IF budget > 0 THEN 0..last ELSE {0}

\* A field of an adult: an exception is not caught by fill_form.
DirectField(id, value, next) ==
    \E raiseAt \in DirectAnswers(3) :
        /\ log' = log \o DirectWrite(id, value, raiseAt)
        /\ budget' = IF raiseAt = 0 THEN budget ELSE budget - 1
        /\ IF raiseAt # 0
           THEN Raise("no such element: " \o id)
           ELSE pc' = next /\ UNCHANGED result

MFQ_fill_situation ==
    /\ impl = "MFQ" /\ pc = "situation"
    /\ \E answer \in Answers :
        /\ Spend(answer)
        /\ IF answer = "raise"
           THEN Raise("no such element: Situation") /\ UNCHANGED log
           ELSE /\ log' = Append(log, Event("select", "Situation",
                                            situation_label(household)))
                /\ pc' = "revenu1"
                /\ UNCHANGED result
    /\ UNCHANGED <<call, i>>
    /\ FillFrame

MFQ_fill_revenu1 ==
    /\ impl = "MFQ" /\ pc = "revenu1"
    /\ DirectField("Revenu1", str(income_to_use(household.primaryPerson)), "age1")
    /\ UNCHANGED <<call, i>>
    /\ FillFrame

MFQ_fill_age1 ==
    /\ impl = "MFQ" /\ pc = "age1"
    /\ DirectField("AgeAdulte1", str(household.primaryPerson.age),
                   IF has_spouse(household) THEN "revenu2" ELSE "children")
    /\ UNCHANGED <<call, i>>
    /\ FillFrame

MFQ_fill_revenu2 ==
    /\ impl = "MFQ" /\ pc = "revenu2"
    /\ DirectField("Revenu2", str(income_to_use(household.spouse[1])), "age2")
    /\ UNCHANGED <<call, i>>
    /\ FillFrame

MFQ_fill_age2 ==
    /\ impl = "MFQ" /\ pc = "age2"
    /\ DirectField("AgeAdulte2", str(household.spouse[1].age), "children")
    /\ UNCHANGED <<call, i>>
    /\ FillFrame

\* Whether the children-count control has an option for n children: the form
\* has five child slots, so an option for a larger count may not exist.
offered(n) == n = 0 \/ n \in DOMAIN children_options

\* fill_form, the children-count selector: always set, from numChildren.
\* select_by_visible_text raises when the control has no such option, which
\* for a count the form does not offer is no fault of the page.
MFQ_fill_children ==
    /\ impl = "MFQ" /\ pc = "children"
    /\ \E answer \in Answers \cup (IF offered(household.numChildren) THEN {} ELSE {"raise"}) :
        /\ IF offered(household.numChildren) THEN Spend(answer) ELSE UNCHANGED budget
        /\ IF answer = "raise"
           THEN Raise("no such element: NbEnfants") /\ UNCHANGED <<log, i>>
           ELSE /\ log' = Append(log, Event("select", "NbEnfants",
                                            nb_enfants_option(household.numChildren)))
                /\ i' = 1
                /\ pc' = IF household.numChildren = 0 THEN "filled" ELSE "child"
                /\ UNCHANGED result
    /\ UNCHANGED call
    /\ FillFrame

\* What fill_form writes in slot child_num: the child's own figure when the
\* list reaches that far and declares it, a default otherwise.
child_age(children, child_num) ==
    IF child_num <= Len(children) /\ children[child_num].age # None
    THEN str(children[child_num].age[1])
    ELSE str(5 + (child_num - 1))

child_frais(children, child_num) ==
    IF child_num <= Len(children) /\ children[child_num].childcare_expenses # None
    THEN str(children[child_num].childcare_expenses[1])
    ELSE "0"

child_type(children, child_num) ==
    IF child_num <= Len(children) THEN children[child_num].childcare_type
    ELSE None

\* fill_form, the loop over min(numChildren, 5) slots: age, childcare expense
\* and childcare type of slot i, each in its own try block that swallows
\* every exception.
MFQ_fill_child ==
    /\ impl = "MFQ" /\ pc = "child"
    /\ IF i > household.numChildren \/ i > 5
       THEN pc' = "filled" /\ UNCHANGED <<log, budget, i>>
       ELSE \E ka \in DirectAnswers(3), kf \in DirectAnswers(3), kt \in DirectAnswers(2) :
              LET cost == (IF ka = 0 THEN 0 ELSE 1) + (IF kf = 0 THEN 0 ELSE 1)
                          + (IF kt = 0 THEN 0 ELSE 1)
              IN  /\ cost <= budget
                  /\ budget' = budget - cost
                  /\ log' = log
                        \o DirectWrite("AgeEnfant" \o str(i),
                                       child_age(household.children, i), ka)
                        \o DirectWrite("Frais" \o str(i),
                                       child_frais(household.children, i), kf)
                        \o DirectSelect("type_garde" \o str(i),
                                        child_type(household.children, i), kt)
                  /\ i' = i + 1
                  /\ pc' = "child"
    /\ UNCHANGED <<call, result>>
    /\ FillFrame

\* The same step, had the extractor read the page without waiting.
Settle_noWait ==
    /\ pc = "filled"
    /\ results' = Empty
    /\ pc' = IF impl = "QCS" THEN "table_scan" ELSE "extract"
    /\ UNCHANGED <<given, log, call, budget, i, previous_value,
                   stable_count, elapsed, stable, result>>

\* scrape_calculator / scrape after the form is filled: time.sleep(3), then
\* the extractor starts on an empty mapping.  QuebecCalculatorScraper's
\* extractor first waits for the calculation, MFQScraperSimple's has no waiter.
Settle ==
    /\ pc = "filled"
    /\ results' = Empty
    /\ pc' = IF impl = "QCS" THEN "wait" ELSE "extract"
    /\ UNCHANGED <<given, log, call, budget, i, previous_value,
                   stable_count, elapsed, stable, result>>

\* ------------------------------------------------------------- stabilization waiter

\* Text is a sequence of one-character strings.
Space == " "
\* U+202F is written "nnbsp", which stands for that one character.
NarrowSpace == "nnbsp"

\* One poll of the output control: a failed read (find_element or
\* get_attribute raised), or the value read.
Poll(ok, value) == [ok |-> ok, value |-> value]
FailedPoll == Poll(FALSE, <<>>)

\* current_value.replace(' ', '').replace('\u202f', '')
clean_value(current_value) ==
    SelectSeq(current_value, LAMBDA c : c # Space /\ c # NarrowSpace)

\* The values enumerated for a poll: empty, "0", "150", "1 50", "200".
PollTexts ==
    {<<>>, <<"0">>, <<"1", "5", "0">>, <<"1", Space, "5", "0">>, <<"2", "0", "0">>}

Polls == {FailedPoll} \cup {Poll(TRUE, v) : v \in PollTexts}

\* Every behaviour of the polled control over the polls of one wait.
Scripts == [1..MaxPolls -> Polls]

\* A script that shows the values of s, then its last value for ever.
Showing(s) ==
    [k \in 1..MaxPolls |-> Poll(TRUE, IF k <= Len(s) THEN s[k] ELSE s[Len(s)])]

\* The sequence "0", "0", "150", "150", "150" of the specification.
SettlingScript ==
    Showing(<<<<"0">>, <<"0">>, <<"1", "5", "0">>, <<"1", "5", "0">>, <<"1", "5", "0">>>>)

\* An output that stays at "0".
ZeroScript == Showing(<<<<"0">>>>)

\* The same test, had one repetition been enough.
stable_after_one(count) == count >= 1

\* stable_count >= 2
stable_enough(count) == count >= 2

\* _wait_for_calculation_complete: "tax_year = 2025  # Par défaut", a local
\* the method sets itself (it takes no household).
waiter_tax_year == 2025

\* rd_selector, kept as the element id: the control the waiter polls.
rd_selector == IF waiter_tax_year >= 2025 THEN "RD_new" ELSE "RD_old"

\* The same clock, had a turn of the loop taken no time.
slept_no_time(n) == n

\* time.sleep(0.5), which ends every turn of the loop on both of its paths:
\* one more poll interval of max_wait has elapsed.
slept(n) == n + 1

\* The same test, had a reading of "0" been taken for a value.
has_value_zeroIncluded(poll) == poll.ok /\ poll.value # <<>>

\* `if current_value and current_value != '0'`: the reading is a value the
\* waiter takes into account (a read that raised gives none).
has_value(poll) == poll.ok /\ poll.value # <<>> /\ poll.value # <<"0">>

\* _wait_for_calculation_complete, one turn of its loop.  Past max_wait it
\* returns False.  Otherwise it reads the control: a failed read, an empty
\* value and "0" change nothing; a value equal to previous_value counts, and
\* the second count returns True; any other value becomes previous_value and
\* resets the count.  Every turn sleeps one poll interval.
QCS_wait ==
    /\ impl = "QCS" /\ pc = "wait"
    /\ IF elapsed >= MaxPolls
       THEN /\ stable' = Some(FALSE)
            /\ log' = Append(log, Event("wait_return", rd_selector, "False"))
            /\ pc' = "table_scan"
            /\ UNCHANGED <<previous_value, stable_count, elapsed>>
       ELSE LET poll == script[elapsed + 1]
                current_value == poll.value
                counted == has_value(poll)
                clean == clean_value(current_value)
            IN  /\ elapsed' = slept(elapsed)
                /\ IF counted /\ Some(clean) = previous_value
                   THEN /\ stable_count' = stable_count + 1
                        /\ UNCHANGED previous_value
                        /\ IF stable_enough(stable_count + 1)
                           THEN /\ stable' = Some(TRUE)
                                /\ log' = Append(log, Event("wait_return", rd_selector, "True"))
                                /\ pc' = "table_scan"
                           ELSE UNCHANGED <<stable, pc, log>>
                   ELSE /\ IF counted
                           THEN stable_count' = 0 /\ previous_value' = Some(clean)
                           ELSE UNCHANGED <<stable_count, previous_value>>
                        /\ UNCHANGED <<stable, pc, log>>
    /\ UNCHANGED <<given, call, budget, i, results, result>>

\* ------------------------------------------------------------- numeric text parser

\* Glyphs outside ASCII are written by their code point, each name standing
\* for that one character.
HorizontalBar == "u2015"
EmDash == "u2014"
MinusSign == "u2212"
EnDash == "u2013"
Hyphen == "-"

IsDigit(c) == \E k \in 1..10 : Digit[k] = c
DigitValue(c) == (CHOOSE k \in 1..10 : Digit[k] = c) - 1
IsSpace(c) == c \in {Space, NarrowSpace}

Range(seq) == {seq[k] : k \in DOMAIN seq}

\* Python's str.strip().
RECURSIVE strip(_)
strip(text) ==
    IF text = <<>> THEN text
    ELSE IF IsSpace(Head(text)) THEN strip(Tail(text))
    ELSE IF IsSpace(text[Len(text)]) THEN strip(SubSeq(text, 1, Len(text) - 1))
    ELSE text

\* text.replace(old, new) for one-character old; new is a text.
RECURSIVE replace(_, _, _)
replace(text, old, new) ==
    IF text = <<>> THEN <<>>
    ELSE (IF Head(text) = old THEN new ELSE <<Head(text)>>)
         \o replace(Tail(text), old, new)

\* The value of a digit string.
RECURSIVE int(_)
int(digits) ==
    IF digits = <<>> THEN 0
    ELSE 10 * int(SubSeq(digits, 1, Len(digits) - 1)) + DigitValue(digits[Len(digits)])

\* A number is <<m, d>>, standing for m / 10^d with no trailing zero in m
\* when d > 0: two numbers are equal exactly when the floats are.
RECURSIVE Number(_, _)
Number(m, d) == IF d > 0 /\ m % 10 = 0 THEN Number(m \div 10, d - 1) ELSE <<m, d>>

Negated(number) == <<-number[1], number[2]>>

\* Python's float() of a text of digits and dots: None for a ValueError (no
\* digit, or more than one dot).
UnsignedFloat(text) ==
    LET digits == SelectSeq(text, IsDigit)
        dots == SelectSeq(text, LAMBDA c : c = ".")
        dot == IF dots = <<>> THEN Len(text)
               ELSE CHOOSE k \in 1..Len(text) : text[k] = "."
    IN  IF digits = <<>> \/ Len(dots) > 1 \/ Len(digits) + Len(dots) # Len(text)
        THEN None
        ELSE Some(Number(int(digits), Len(text) - dot))

\* Python's float() of a text that may start with a hyphen.
float(text) ==
    IF text # <<>> /\ Head(text) = Hyphen
    THEN LET v == UnsignedFloat(Tail(text))
         IN  IF v = None THEN None ELSE Some(Negated(v[1]))
    ELSE UnsignedFloat(text)

\* An output control of the page: its tag and the text it holds (the value
\* attribute of an input, the displayed text otherwise).  A control the page
\* does not have is None.
Control(tag, text) == [tag |-> tag, text |-> text]

\* QuebecCalculatorScraper._extract_numeric_value on the control a selector
\* finds: None when there is no control (every exception is swallowed), when
\* the text is empty or a dash, or when nothing parses; otherwise the number.
_extract_numeric_value(control) ==
    IF control = None THEN None
    ELSE LET element == control[1]
             text == IF element.tag = "input" THEN element.text ELSE strip(element.text)
             kept == SelectSeq(text, LAMBDA c : IsDigit(c) \/ c \in {".", ",", Hyphen, Space})
             cleaned == replace(replace(kept, Space, <<>>), ",", <<".">>)
             is_negative == Hyphen \in Range(cleaned) \/ MinusSign \in Range(text)
             unsigned == replace(replace(cleaned, Hyphen, <<>>), MinusSign, <<>>)
             value == UnsignedFloat(unsigned)
         IN  IF text = <<>> \/ text \in {<<HorizontalBar>>, <<EmDash>>, <<Hyphen>>}
             THEN None
             ELSE IF unsigned = <<>> \/ value = None THEN None
             ELSE IF is_negative THEN Some(Negated(value[1])) ELSE value

\* MFQScraperSimple.extract_results on one control: 0 when there is no control,
\* when the text is empty or a dash, or when float() raises.
extract_value(control) ==
    IF control = None THEN Number(0, 0)
    ELSE LET element == control[1]
             raw == IF element.tag = "input" THEN element.text ELSE strip(element.text)
             text == replace(replace(replace(raw, Space, <<>>), ",", <<".">>),
                             MinusSign, <<Hyphen>>)
             signed == IF text # <<>> /\ Head(text) = "(" /\ text[Len(text)] = ")"
                       THEN <<Hyphen>> \o SubSeq(text, 2, Len(text) - 1)
                       ELSE text
         IN  IF raw = <<>> \/ raw \in {<<HorizontalBar>>, <<EmDash>>, <<Hyphen>>}
             THEN Number(0, 0)
             ELSE IF float(signed) = None THEN Number(0, 0)
             ELSE float(signed)[1]

\* ------------------------------------------------------------- result extractor

\* QuebecCalculatorScraper._extract_results: the two selector tables, as
\* written in the source (each selector '#<id>' is kept as its element id).
selectors_2024 ==
    ("revenu_disponible" :> "RD_old") @@
    ("ae_total" :> "CA_ae_old") @@
    ("rrq_total" :> "CA_rrq_old") @@
    ("rqap_total" :> "QC_rqap_old") @@
    ("qc_regime_fiscal_total" :> "QC_total_old") @@
    ("ca_regime_fiscal_total" :> "CA_total_old") @@
    ("qc_impot" :> "QC_impot_old") @@
    ("ca_impot" :> "CA_impot_old") @@
    ("qc_solidarite" :> "QC_sol_old") @@
    ("ca_tps" :> "CA_tps_old") @@
    ("ca_pfrt" :> "CA_pfrt_old") @@
    ("qc_prime_travail" :> "QC_pt_old") @@
    ("ramq" :> "QC_ramq_old") @@
    ("fss" :> "QC_fss_old") @@
    ("qc_allocation_famille" :> "QC_sae_old") @@
    ("qc_fournitures_scolaires" :> "SFS_old") @@
    ("qc_garde_enfants" :> "QC_garde_old") @@
    ("qc_allocation_logement" :> "QC_al_old") @@
    ("qc_soutien_aines" :> "QC_aines_old") @@
    ("ca_allocation_enfants" :> "CA_ace_old") @@
    ("ca_pension_securite" :> "CA_psv_old") @@
    ("qc_aide_sociale" :> "QC_adr_old") @@
    ("qc_frais_medicaux" :> "QC_medic_old") @@
    ("ca_frais_medicaux" :> "CA_medic_old") @@
    ("cotisations_total" :> "Cotisation_old")

selectors_2025 ==
    ("revenu_disponible" :> "RD_new") @@
    ("ae_total" :> "CA_ae_new") @@
    ("rrq_total" :> "CA_rrq_new") @@
    ("rqap_total" :> "QC_rqap_new") @@
    ("qc_regime_fiscal_total" :> "QC_total_new") @@
    ("ca_regime_fiscal_total" :> "CA_total_new") @@
    ("qc_impot" :> "QC_impot_new") @@
    ("ca_impot" :> "CA_impot_new") @@
    ("qc_solidarite" :> "QC_sol_new") @@
    ("ca_tps" :> "CA_tps_new") @@
    ("ca_pfrt" :> "CA_pfrt_new") @@
    ("qc_prime_travail" :> "QC_pt_new") @@
    ("ramq" :> "QC_ramq_new") @@
    ("fss" :> "QC_fss_new") @@
    ("qc_allocation_famille" :> "QC_sae_new") @@
    ("qc_fournitures_scolaires" :> "SFS_new") @@
    ("qc_garde_enfants" :> "QC_garde_new") @@
    ("qc_allocation_logement" :> "QC_al_new") @@
    ("qc_soutien_aines" :> "QC_aines_new") @@
    ("ca_allocation_enfants" :> "CA_ace_new") @@
    ("ca_pension_securite" :> "CA_psv_new") @@
    ("qc_aide_sociale" :> "QC_adr_new") @@
    ("qc_frais_medicaux" :> "QC_medic_new") @@
    ("ca_frais_medicaux" :> "CA_medic_new") @@
    ("cotisations_total" :> "Cotisation_new")

\* The table _extract_results uses for a tax year.
selectors(tax_year) == IF tax_year >= 2025 THEN selectors_2025 ELSE selectors_2024

\* MFQScraperSimple.extract_results: the element id of each key is a stem
\* followed by the suffix of the tax year.
result_stems ==
    ("revenu_disponible" :> "RD") @@
    ("qc_impot_total" :> "QC_total") @@
    ("qc_impot" :> "QC_impot") @@
    ("qc_aide_sociale" :> "QC_adr") @@
    ("qc_allocation_famille" :> "QC_sae") @@
    ("qc_fournitures_scolaires" :> "SFS") @@
    ("qc_prime_travail" :> "QC_pt") @@
    ("qc_solidarite" :> "QC_sol") @@
    ("qc_garde_enfants" :> "QC_garde") @@
    ("qc_allocation_logement" :> "QC_al") @@
    ("qc_frais_medicaux" :> "QC_medic") @@
    ("qc_soutien_aines" :> "QC_aines") @@
    ("ca_impot_total" :> "CA_total") @@
    ("ca_impot" :> "CA_impot") @@
    ("ca_allocation_enfants" :> "CA_ace") @@
    ("ca_tps" :> "CA_tps") @@
    ("ca_pfrt" :> "CA_pfrt") @@
    ("ca_pension_securite" :> "CA_psv") @@
    ("ca_frais_medicaux" :> "CA_medic") @@
    ("cotisations_total" :> "Cotisation") @@
    ("ae_total" :> "CA_ae") @@
    ("rqap_total" :> "QC_rqap") @@
    ("rrq_total" :> "CA_rrq") @@
    ("fss" :> "QC_fss") @@
    ("ramq" :> "QC_ramq") @@
    ("frais_garde" :> "Frais_garde")

suffix(tax_year) == IF tax_year = 2024 THEN "_old" ELSE "_new"

result_ids(tax_year) ==
    [key \in DOMAIN result_stems |-> result_stems[key] \o suffix(tax_year)]

\* The keys of the two selector tables, in the order the tables list them
\* (the order the selector pass takes them in).
selector_keys ==
    <<"revenu_disponible", "ae_total", "rrq_total", "rqap_total",
      "qc_regime_fiscal_total", "ca_regime_fiscal_total", "qc_impot",
      "ca_impot", "qc_solidarite", "ca_tps", "ca_pfrt", "qc_prime_travail",
      "ramq", "fss", "qc_allocation_famille", "qc_fournitures_scolaires",
      "qc_garde_enfants", "qc_allocation_logement", "qc_soutien_aines",
      "ca_allocation_enfants", "ca_pension_securite", "qc_aide_sociale",
      "qc_frais_medicaux", "ca_frais_medicaux", "cotisations_total">>

\* The keys of result_ids, in the order extract_results takes them in.
result_keys ==
    <<"revenu_disponible", "qc_impot_total", "qc_impot", "qc_aide_sociale",
      "qc_allocation_famille", "qc_fournitures_scolaires",
      "qc_prime_travail", "qc_solidarite", "qc_garde_enfants",
      "qc_allocation_logement", "qc_frais_medicaux", "qc_soutien_aines",
      "ca_impot_total", "ca_impot", "ca_allocation_enfants", "ca_tps",
      "ca_pfrt", "ca_pension_securite", "ca_frais_medicaux",
      "cotisations_total", "ae_total", "rqap_total", "rrq_total", "fss",
      "ramq", "frais_garde">>

\* QuebecCalculatorScraper._extract_results of src/calculator_scraper.py: its
\* one selector table, as written in the source, and the order of its keys.
root_selectors ==
    ("revenu_disponible" :> "RD_new") @@
    ("ae_total" :> "CA_ae_new") @@
    ("rrq_total" :> "CA_rrq_new") @@
    ("rqap_total" :> "QC_rqap_new") @@
    ("qc_impot_total" :> "QC_total_new") @@
    ("ca_impot_total" :> "CA_total_new") @@
    ("qc_solidarite" :> "QC_sol_new") @@
    ("ca_tps" :> "CA_tps_new") @@
    ("ca_pfrt" :> "CA_pfrt_new") @@
    ("qc_prime_travail" :> "QC_pt_new") @@
    ("ramq" :> "QC_ramq_new") @@
    ("fss" :> "QC_fss_new")

root_selector_keys ==
    <<"revenu_disponible", "ae_total", "rrq_total", "rqap_total",
      "qc_impot_total", "ca_impot_total", "qc_solidarite", "ca_tps",
      "ca_pfrt", "qc_prime_travail", "ramq", "fss">>

\* The controls a pass looks for, in order: one read of the control
\* table[key] for each key of keys.
output_reads(keys, table) ==
    [k \in DOMAIN keys |-> Event("read_output", table[keys[k]], keys[k])]

\* Every output control either scraper looks for.
OutputIds ==
    Range(selectors_2024) \cup Range(selectors_2025)
    \cup UNION {Range(result_ids(y)) : y \in TaxYears}

\* mapping[key] = value
Put(mapping, key, value) == (key :> value) @@ mapping

\* A table cell: ok is whether its text can be read, row the lower-case words
\* of the text of its parent row (none when the row cannot be read).
Cell(ok, text, row) == [ok |-> ok, text |-> text, row |-> row]

\* re.match(r'^\d{1,2}\s\d{3}$', text)
IsAmount(text) ==
    /\ Len(text) \in {5, 6}
    /\ \A k \in 1..Len(text) :
          IF k = Len(text) - 3 THEN IsSpace(text[k]) ELSE IsDigit(text[k])

\* _extract_results, the table scan, on one cell.  A grouped amount is stored
\* under the key its row text names; a dash in a childcare row stores 0; an
\* exception (the cell cannot be read, int() refuses a space other than ' ')
\* skips the cell.
scan_cell(mapping, cell) ==
    LET text == strip(cell.text)
        number == int(SelectSeq(text, IsDigit))
    IN  IF ~cell.ok \/ text \in {<<"2", "0", "2", "4">>, <<"2", "0", "2", "5">>}
        THEN mapping
        ELSE IF IsAmount(text)
        THEN IF NarrowSpace \in Range(text) THEN mapping
             ELSE IF "disponible" \in cell.row
             THEN Put(mapping, "revenu_disponible", Number(number, 0))
             ELSE IF "québec" \in cell.row /\ "régime" \in cell.row
             THEN Put(mapping, "qc_regime_fiscal_total", Number(number, 0))
             ELSE IF "fédéral" \in cell.row /\ "régime" \in cell.row
             THEN Put(mapping, "ca_regime_fiscal_total", Number(number, 0))
             ELSE IF "cotisations" \in cell.row
             THEN Put(mapping, "cotisations_total", Number(-number, 0))
             ELSE mapping
        ELSE IF text \in {<<EmDash>>, <<Hyphen>>} /\ "garde" \in cell.row
        THEN Put(mapping, "frais_garde", Number(0, 0))
        ELSE mapping

RECURSIVE scan(_, _)
scan(mapping, table) ==
    IF table = <<>> THEN mapping
    ELSE scan(scan_cell(mapping, Head(table)), Tail(table))

\* ------------------------------------------------------------- pages

\* The text "1 234".
Amount == <<"1", Space, "2", "3", "4">>

\* What an output control holds on a page nothing is said about.
DefaultControl == Some(Control("input", Amount))

\* The output controls a page may show in its own way, by the stem of their
\* element ids (the disposable income, the childcare credit, the
\* contributions); every other control holds "1 234".
VariedStems == {"RD", "QC_garde", "Cotisation"}

\* The table of a page nothing else is said about: the disposable income and
\* a dash for childcare.
FullTable ==
    Some(<<Cell(TRUE, <<"3", "4", Space, "0", "8", "8">>, {"revenu", "disponible"}),
           Cell(TRUE, <<EmDash>>, {"frais", "de", "garde"})>>)

\* A page: what the controls of those stems show (None: the page has no such
\* control), in both dialects alike, whether its table cells can be listed
\* (find_elements raises otherwise), and the cells listed.
Page(shown, listed) == [shown |-> shown, listed |-> listed, table |-> FullTable[1]]

\* The same table with a first cell whose text cannot be read.
UnreadableTable ==
    <<Cell(FALSE, <<>>, {})>> \o FullTable[1]

\* The pages whose every output control holds "1 234" and whose table has no
\* cell at all, or starts with a cell that cannot be read.
ScanPages ==
    {[shown |-> [stem \in VariedStems |-> DefaultControl], listed |-> TRUE,
      table |-> table] : table \in {<<>>, UnreadableTable}}

\* Every output control holds "1 234"; the table shows the disposable income
\* and a dash for childcare.
Full == Page([stem \in VariedStems |-> DefaultControl], TRUE)

\* The disposable-income controls are missing, the childcare credit shows a
\* dash, and the table cells cannot be listed.
Bare ==
    Page([stem \in VariedStems |->
             CASE stem = "RD" -> None
               [] stem = "QC_garde" -> Some(Control("input", <<EmDash>>))
               [] OTHER -> DefaultControl],
         FALSE)

\* The pages enumerated for a whole scrape call.
SamplePages == {Full, Bare}

\* The output controls of page p, by element id.
PageOutputs(p) ==
    [id \in OutputIds |->
        IF \E stem \in VariedStems : id \in {stem \o "_old", stem \o "_new"}
        THEN p.shown[CHOOSE stem \in VariedStems : id \in {stem \o "_old", stem \o "_new"}]
        ELSE DefaultControl]

FullPage == PageOutputs(Full)
BarePage == PageOutputs(Bare)

\* The output controls of the page, by element id.
outputs == PageOutputs(page)

\* A text no number can be read from.
Unparsable == <<"n", "/", "a">>

\* What one of those controls may be: holding "1 234", missing, showing the
\* dash, or holding a text that is no number.
ControlStates ==
    {DefaultControl, None, Some(Control("input", <<EmDash>>)),
     Some(Control("input", Unparsable))}

\* Every page in which any subset of those controls is missing, dashed or
\* unparsable, with and without a table that can be listed.
VariedPages ==
    {Page(shown, listed) : shown \in [VariedStems -> ControlStates], listed \in BOOLEAN}

\* The characters the texts below are made of: digits, the separators, the
\* two minus signs, the dashes, parentheses and a letter.
Characters ==
    {"0", "7", Space, ",", ".", Hyphen, MinusSign, EmDash, EnDash, HorizontalBar,
     "(", ")", "a"}

\* Every text of at most two of those characters.
ShortTexts ==
    {<<>>} \cup {<<a>> : a \in Characters} \cup {<<a, b>> : a, b \in Characters}

Pow10(d) == IF d = 0 THEN 1 ELSE IF d = 1 THEN 10 ELSE 100

\* An amount as the page renders it, and the number it stands for: the whole
\* part in groups of three separated by spaces, then nothing or a comma and
\* the decimals.
Rendering(whole, decimals) ==
    [text |-> whole[1] \o decimals[1],
     value |-> Number(whole[2] * Pow10(Len(decimals[1]) - 1) + decimals[2],
                      Len(decimals[1]) - 1)]

Wholes ==
    {<<(<<"1", "2", "3">>), 123>>, <<(<<"1", "0", "3">>), 103>>,
     <<(<<"3", "1", "8">>), 318>>, <<Amount, 1234>>}

Decimals ==
    {<<(<<",", "5">>), 5>>, <<(<<",", "3", "2">>), 32>>}

UnsignedAmounts ==
    {[text |-> whole[1], value |-> Number(whole[2], 0)] : whole \in Wholes}
    \cup {Rendering(whole, decimals) : whole \in Wholes, decimals \in Decimals}

\* The same amounts behind a hyphen or a minus sign.
NegativeAmounts ==
    {[text |-> <<sign>> \o a.text, value |-> Negated(a.value)] :
        sign \in {Hyphen, MinusSign}, a \in UnsignedAmounts}

\* The same amounts between parentheses, the accounting notation of a
\* negative number.
ParenthesizedAmounts ==
    {[text |-> <<"(">> \o a.text \o <<")">>, value |-> Negated(a.value)] :
        a \in UnsignedAmounts}

RenderedAmounts == UnsignedAmounts \cup NegativeAmounts \cup ParenthesizedAmounts

\* Texts whose only hyphen is not in front: between two groups of digits,
\* and after the digits.
InnerHyphenTexts ==
    {whole[1] \o <<Hyphen>> \o tail : whole \in Wholes, tail \in {<<>>, <<"5", "0">>}}

\* The texts the parsers are tried on.
ParserTexts == ShortTexts \cup {a.text : a \in RenderedAmounts} \cup InnerHyphenTexts

\* The pages whose disposable-income control, an input or a cell, holds one
\* of those texts; no table can be listed on them.
TextPages ==
    {Page([stem \in VariedStems |->
              IF stem = "RD" THEN Some(Control(tag, text)) ELSE DefaultControl],
          FALSE) :
        tag \in {"input", "td"}, text \in ParserTexts}

\* Every page some specification starts on.
AllPages == SamplePages \cup VariedPages \cup TextPages

\* Every control (or absence of one) a selector can find on these pages.
SampleControls ==
    {DefaultControl} \cup {p.shown[stem] : p \in AllPages, stem \in VariedStems}

\* What each scraper reads from each of these controls, computed once:
\* _extract_numeric_value and the body of extract_results' loop.
numeric_value == [control \in SampleControls |-> _extract_numeric_value(control)]
value_or_zero == [control \in SampleControls |-> extract_value(control)]

\* The table cells of the page, or None when they cannot be listed.
cells == IF page.listed THEN Some(page.table) ELSE None

\* The same step, had the extractor given up when the waiter returned False.
QCS_table_scan_afterSuccessOnly ==
    /\ impl = "QCS" /\ pc = "table_scan"
    /\ IF stable = Some(FALSE)
       THEN Raise("timeout: calculation not stable") /\ UNCHANGED <<results, log>>
       ELSE /\ results' = IF cells = None THEN results ELSE scan(results, cells[1])
            /\ log' = Append(log, Event("table_scan", "", ""))
            /\ pc' = "selector_pass"
            /\ UNCHANGED result
    /\ UNCHANGED <<given, call, budget, i, previous_value, stable_count,
                   elapsed, stable>>

\* The same pass, had a failure to list the cells ended the call.
QCS_table_scan_raising ==
    /\ impl = "QCS" /\ pc = "table_scan"
    /\ IF cells = None
       THEN Raise("no such element: td, th") /\ UNCHANGED <<results, log>>
       ELSE /\ results' = scan(results, cells[1])
            /\ log' = Append(log, Event("table_scan", "", ""))
            /\ pc' = "selector_pass"
            /\ UNCHANGED result
    /\ UNCHANGED <<given, call, budget, i, previous_value, stable_count,
                   elapsed, stable>>

\* _extract_results, the table scan: every failure is swallowed, find_elements
\* raising included.
QCS_table_scan ==
    /\ impl = "QCS" /\ pc = "table_scan"
    /\ results' = IF cells = None THEN results ELSE scan(results, cells[1])
    /\ log' = Append(log, Event("table_scan", "", ""))
    /\ pc' = "selector_pass"
    /\ UNCHANGED <<given, call, budget, i, previous_value, stable_count,
                   elapsed, stable, result>>

\* _extract_results, the selector pass over the table of the tax year: a key
\* is stored when _extract_numeric_value returns a number.  (The except branch
\* that stores None cannot be taken: _extract_numeric_value raises nothing.)
selector_pass(mapping, tax_year) ==
    LET table == selectors(tax_year)
        value == [key \in DOMAIN table |-> numeric_value[outputs[table[key]]]]
        found == {key \in DOMAIN table : value[key] # None}
    IN  [key \in DOMAIN mapping \cup found |->
            IF key \in found THEN value[key][1] ELSE mapping[key]]

\* The selector pass, then scrape_calculator returns the mapping.
QCS_selector_pass ==
    /\ impl = "QCS" /\ pc = "selector_pass"
    /\ LET final == selector_pass(results, household.taxYear)
       IN  results' = final /\ result' = final
    /\ log' = Append(log \o output_reads(selector_keys, selectors(household.taxYear)),
                     Event("selector_pass", "", ""))
    /\ pc' = "done"
    /\ UNCHANGED <<given, call, budget, i, previous_value, stable_count,
                   elapsed, stable>>

\* MFQScraperSimple.extract_results: every key of result_ids is stored, then
\* 'success'; scrape returns the mapping.
extract_results(tax_year) ==
    LET ids == result_ids(tax_year)
    IN  ("success" :> TRUE) @@ [key \in DOMAIN ids |-> value_or_zero[outputs[ids[key]]]]

MFQ_extract ==
    /\ impl = "MFQ" /\ pc = "extract"
    /\ LET final == extract_results(household.taxYear)
       IN  results' = final /\ result' = final
    /\ log' = Append(log \o output_reads(result_keys, result_ids(household.taxYear)),
                     Event("selector_pass", "", ""))
    /\ pc' = "done"
    /\ UNCHANGED <<given, call, budget, i, previous_value, stable_count,
                   elapsed, stable>>

\* QuebecCalculatorScraper._extract_results of src/calculator_scraper.py, which
\* takes no household: every key of its one table is looked for, and stored
\* when _extract_numeric_value (the same text in both files) returns a number.
root_extract_results ==
    LET value == [key \in DOMAIN root_selectors |->
                     numeric_value[outputs[root_selectors[key]]]]
        found == {key \in DOMAIN root_selectors : value[key] # None}
    IN  [key \in found |-> value[key][1]]

\* That extractor, then scrape_calculator returns the mapping.
ROOT_extract ==
    /\ impl = "ROOT" /\ pc = "extract"
    /\ results' = root_extract_results /\ result' = root_extract_results
    /\ log' = Append(log \o output_reads(root_selector_keys, root_selectors),
                     Event("selector_pass", "", ""))
    /\ pc' = "done"
    /\ UNCHANGED <<given, call, budget, i, previous_value, stable_count,
                   elapsed, stable>>

\* ------------------------------------------------------------- specifications

Implementations == {"QCS", "MFQ"}

\* The state when a scrape call starts.
Start ==
    /\ pc = "start"
    /\ log = <<>>
    /\ call = NoCall
    /\ i = 0
    /\ previous_value = None
    /\ stable_count = 0
    /\ elapsed = 0
    /\ stable = None
    /\ results = Empty
    /\ result = Empty
    /\ earlier = <<>>

\* One scrape call on a sample household, against a page that may misbehave.
\* MFQScraperSimple never polls, so one script is enough for it.
Init ==
    /\ impl \in Implementations
    /\ household \in SampleHouseholds
    /\ script \in IF impl = "QCS" THEN {SettlingScript, ZeroScript} ELSE {ZeroScript}
    /\ page \in SamplePages
    /\ budget = MaxFaults
    /\ Start

Next ==
    \/ Navigate
    \/ AwaitForm
    \/ QCS_fill_situation
    \/ QCS_fill_revenu1
    \/ QCS_fill_age1
    \/ QCS_fill_revenu2
    \/ QCS_fill_age2
    \/ QCS_fill_children
    \/ QCS_fill_child
    \/ MFQ_fill_situation
    \/ MFQ_fill_revenu1
    \/ MFQ_fill_age1
    \/ MFQ_fill_revenu2
    \/ MFQ_fill_age2
    \/ MFQ_fill_children
    \/ MFQ_fill_child
    \/ Settle
    \/ QCS_wait
    \/ QCS_table_scan
    \/ QCS_selector_pass
    \/ MFQ_extract

Spec == Init /\ [][Next]_vars

\* One scrape call on every household enumerated, against a page that accepts
\* every interaction it has a control and an option for.
InitFill ==
    /\ impl \in Implementations
    /\ household \in Households
    /\ script = SettlingScript
    /\ page = Full
    /\ budget = 0
    /\ Start

SpecFill == InitFill /\ [][Next]_vars

\* One call of _wait_for_calculation_complete, against every behaviour of the
\* polled control.
InitWait ==
    /\ impl = "QCS"
    /\ household = SingleAdult(2025)
    /\ script \in Scripts
    /\ page = Full
    /\ budget = 0
    /\ pc = "wait"
    /\ log = <<>>
    /\ call = NoCall
    /\ i = 0
    /\ previous_value = None
    /\ stable_count = 0
    /\ elapsed = 0
    /\ stable = None
    /\ results = Empty
    /\ result = Empty
    /\ earlier = <<>>

NextWait == QCS_wait

SpecWait == InitWait /\ [][NextWait]_vars

\* The households enumerated for the extractors, which read the tax year only.
ExtractHouseholds ==
    {Household(t, Person(35, 15000, 0, FALSE), None, <<>>, 0, y) :
        t \in HouseholdTypes, y \in TaxYears}

\* The three extractors, each started where its scrape call starts it: the
\* form is filled and, in python-scraper's QuebecCalculatorScraper, the
\* waiter has returned.
InitExtract ==
    /\ impl \in {"QCS", "MFQ", "ROOT"}
    /\ household \in ExtractHouseholds
    /\ script = ZeroScript
    /\ page \in VariedPages \cup TextPages \cup ScanPages
    /\ budget = 0
    /\ pc = IF impl = "QCS" THEN "table_scan" ELSE "extract"
    /\ log = <<>>
    /\ call = NoCall
    /\ i = 0
    /\ previous_value = None
    /\ stable_count = 0
    /\ elapsed = IF impl = "QCS" THEN MaxPolls ELSE 0
    /\ stable = IF impl = "QCS" THEN Some(FALSE) ELSE None
    /\ results = Empty
    /\ result = Empty
    /\ earlier = <<>>

NextExtract == QCS_table_scan \/ QCS_selector_pass \/ MFQ_extract \/ ROOT_extract

SpecExtract == InitExtract /\ [][NextExtract]_vars

\* The same step, had the waiter kept what it remembered of the call before.
NextCall_keepingWaiter ==
    /\ pc = "done" /\ earlier = <<>>
    /\ earlier' = <<[result |-> result, log |-> log, stable |-> stable,
                     elapsed |-> elapsed]>>
    /\ pc' = "start"
    /\ log' = <<>>
    /\ call' = NoCall
    /\ i' = 0
    /\ elapsed' = 0
    /\ stable' = None
    /\ results' = Empty
    /\ result' = Empty
    /\ UNCHANGED <<impl, household, script, page, budget, previous_value, stable_count>>

\* test_scraper's loop calls scrape_calculator again on the same scraper.  The
\* scraper object holds the driver and the timeout only; everything else is
\* local to a call and created anew: the mapping, the waiter's previous_value,
\* stable_count and start_time.  What the call before returned is remembered
\* here for comparison.
NextCall ==
    /\ pc = "done" /\ earlier = <<>>
    /\ earlier' = <<[result |-> result, log |-> log, stable |-> stable,
                     elapsed |-> elapsed]>>
    /\ pc' = "start"
    /\ log' = <<>>
    /\ call' = NoCall
    /\ i' = 0
    /\ previous_value' = None
    /\ stable_count' = 0
    /\ elapsed' = 0
    /\ stable' = None
    /\ results' = Empty
    /\ result' = Empty
    /\ UNCHANGED <<impl, household, script, page, budget>>

\* Two calls in a row with the same household, against a page that answers
\* the second call as it answered the first: it accepts every interaction,
\* and its children-count control offers the count the household declares.
InitTwice ==
    /\ impl \in Implementations
    /\ household \in {h \in SampleHouseholds : offered(h.numChildren)}
    /\ script \in {SettlingScript, ZeroScript}
    /\ page \in SamplePages
    /\ budget = 0
    /\ Start

NextTwice == Next \/ NextCall

SpecTwice == InitTwice /\ [][NextTwice]_vars

\* The same call, which the interpreter keeps running: the loop is straight
\* code in one thread, so a turn that can be taken is taken.
SpecWaitFair == SpecWait /\ WF_vars(QCS_wait)

\* ------------------------------------------------------------- claims

\* The keys a scraper stores figures under.
ResultKeys ==
    DOMAIN selectors_2024 \cup DOMAIN selectors_2025 \cup DOMAIN result_stems
    \cup {"frais_garde"}

Returned == pc = "done"

Failed == Returned /\ "error" \in DOMAIN result

Ops(events) == {events[k].op : k \in DOMAIN events}

\* C1: whatever exception is raised during navigation, form fill, waiting or
\* extraction, the scrape call returns a mapping (a call that ends before its
\* extraction has finished returns the error mapping, no exception leaves it),
\* and the mapping returned holds either the error key and no result key, or
\* result keys (with MFQScraperSimple's success flag) and no error key.
C1_ErrorOrResults ==
    /\ ~Returned => result = Empty
    /\ Returned /\ "selector_pass" \notin Ops(log) => "error" \in DOMAIN result
    /\ Returned =>
          \/ "error" \in DOMAIN result /\ DOMAIN result \cap ResultKeys = {}
          \/ /\ "error" \notin DOMAIN result
             /\ DOMAIN result \subseteq ResultKeys \cup {"success"}

\* C1 witness: an exception was raised after the form filler had started to
\* write, and the call returned the error mapping.
C1_Witness == Failed /\ log # <<>> /\ budget < MaxFaults

\* The stage a driver interaction belongs to.
FormEvent(e) == e.ctl \in ControlIds
WaitEvent(e) == e.op = "wait_return"
ExtractEvent(e) == e.op \in {"table_scan", "selector_pass"}

FillPcs ==
    {"start", "await_form", "situation", "revenu1", "age1", "revenu2", "age2",
     "children", "child", "filled"}

\* C2: within one scrape call the stages run in the order fill, stabilization
\* wait, extraction: the table scan and the selector pass come after every
\* interaction of the form filler and, in QuebecCalculatorScraper, after the
\* waiter has returned (True or False); the waiter returns after the last
\* form interaction; nothing of the two later stages happens while the form
\* is being filled.
C2_StagesInOrder ==
    /\ \A k \in DOMAIN log :
          /\ ExtractEvent(log[k]) =>
                /\ \A j \in DOMAIN log : FormEvent(log[j]) => j < k
                /\ impl = "QCS" => \E j \in 1..(k - 1) : WaitEvent(log[j])
          /\ WaitEvent(log[k]) =>
                \A j \in DOMAIN log : FormEvent(log[j]) => j < k
    /\ pc \in FillPcs \/ pc = "wait" =>
          /\ \A k \in DOMAIN log : ~ExtractEvent(log[k]) /\ ~WaitEvent(log[k])
          /\ stable = None
    /\ (\E k \in DOMAIN log : ExtractEvent(log[k])) /\ impl = "QCS" => stable # None

\* C2 witness: QuebecCalculatorScraper wrote the form, its waiter timed out,
\* and the extractor still ran both passes before the call returned.
C2_Witness ==
    /\ impl = "QCS" /\ Returned /\ stable = Some(FALSE)
    /\ "send_keys" \in Ops(log) /\ "table_scan" \in Ops(log)
    /\ "selector_pass" \in Ops(log)

\* C3: for every household the form filler sets the situation selector before
\* it writes any income or age field, and sets the children-count selector
\* before it writes any per-child field.
C3_SelectorsFirst ==
    \A k \in DOMAIN log :
        /\ log[k].ctl \in AdultIds /\ log[k].op \in WriteOps =>
              \E j \in 1..(k - 1) : log[j].op = "select" /\ log[j].ctl = "Situation"
        /\ log[k].ctl \in ChildIds /\ log[k].op \in WriteOps =>
              \E j \in 1..(k - 1) : log[j].op = "select" /\ log[j].ctl = "NbEnfants"

\* The values the form filler has set, in order: <<control, value>> for
\* every selection and every write of a value.
RECURSIVE Settings(_)
Settings(events) ==
    IF events = <<>> THEN <<>>
    ELSE LET e == Head(events)
         IN  (IF e.op \in {"select", "send_keys", "js_set"}
              THEN <<<<e.ctl, e.val>>>> ELSE <<>>)
             \o Settings(Tail(events))

Touched(events) == {events[k].ctl : k \in DOMAIN events}

SingleAdultSettings ==
    <<<<"Situation", "Personne vivant seule">>, <<"Revenu1", "15000">>,
      <<"AgeAdulte1", "35">>>>

C5_LabelFromFacts ==
    \A k \in DOMAIN log :
        log[k].op = "select" /\ log[k].ctl = "Situation" =>
            log[k].val = situation_label(household)

\* The figure the rule selects for a person, and the one it ignores.
Selected(person) ==
    IF person.isRetired THEN person.grossRetirementIncome ELSE person.grossWorkIncome
Other(person) ==
    IF person.isRetired THEN person.grossWorkIncome ELSE person.grossRetirementIncome

Persons(h) == {h.primaryPerson} \cup {h.spouse[k] : k \in DOMAIN h.spouse}

\* C6: the value written to a person's income control is that person's
\* grossRetirementIncome when isRetired and grossWorkIncome otherwise, for
\* the primary person and the spouse each; the other figure, when it is not
\* zero and differs, is no value of any interaction with the form.
C6_IncomeByRetirement ==
    \A k \in DOMAIN log :
        /\ log[k].op \in {"send_keys", "js_set"} /\ log[k].ctl = "Revenu1" =>
              log[k].val = str(Selected(household.primaryPerson))
        /\ log[k].op \in {"send_keys", "js_set"} /\ log[k].ctl = "Revenu2" =>
              /\ household.spouse # None
              /\ log[k].val = str(Selected(household.spouse[1]))
        /\ \A person \in Persons(household) :
              Other(person) \notin {0, Selected(person)} =>
                  log[k].val # str(Other(person))

\* C6 witness: a retired primary person with a work income of 15000 and a
\* retirement income of 25000, for whom 25000 was written.
C6_Witness ==
    /\ pc = "filled"
    /\ household.primaryPerson = Person(35, 15000, 25000, TRUE)
    /\ \E k \in DOMAIN log : log[k] = Event("send_keys", "Revenu1", "25000")

OpsOf(events) == [k \in DOMAIN events |-> events[k].op]

Prefixes(seq) == {SubSeq(seq, 1, n) : n \in 0..Len(seq)}

StandardRoute == <<"find", "clear", "send_keys", "read", "tab">>
ScriptedRoute == <<"find", "clear", "send_keys", "read", "js_set", "js_notify", "read">>

Reads(events) == SelectSeq(events, LAMBDA e : e.op = "read")

\* C7: one call of the robust field setter clears the control, writes the
\* value through the standard channel and reads it back, in that order; it
\* goes on to the scripted write if and only if that first read-back differs
\* from the target, the scripted write being followed by the change handler
\* and the recalculation entry point called with the control's identifier
\* without '#', and by a second read-back; it reports the field as confirmed
\* only when its last read-back equals the target.
C7_TwoTier ==
    call # NoCall =>
        LET t == call.trace
            v == call.value
        IN  /\ OpsOf(t) \in Prefixes(StandardRoute) \cup Prefixes(ScriptedRoute)
            /\ \A k \in DOMAIN t :
                  /\ "#" \o t[k].ctl = call.selector
                  /\ t[k].op \in {"send_keys", "js_set"} => t[k].val = v
                  /\ t[k].op = "js_notify" => t[k].val = t[k].ctl
            /\ Len(t) >= 4 /\ call.report # "error" =>
                  ("js_set" \in Ops(t) <=> t[4].val # v)
            /\ Len(t) >= 5 => (t[5].op = "js_set" <=> t[4].val # v)
            /\ call.report # "error" =>
                  OpsOf(t) = IF t[4].val # v THEN ScriptedRoute ELSE StandardRoute
            /\ call.report \in {"standard", "javascript"} =>
                  Reads(t)[Len(Reads(t))].val = v
            /\ call.report = "unconfirmed" => Reads(t)[Len(Reads(t))].val # v
            /\ call.report = "javascript" => Len(Reads(t)) = 2 /\ Reads(t)[1].val # v

\* C7 witness: the page ignored the standard write and took the scripted one.
C7_Witness ==
    /\ call.report = "javascript"
    /\ OpsOf(call.trace) = ScriptedRoute

\* The controls the form filler has to attempt for a household, in order:
\* what _fill_form hands to _fill_field, and what fill_form locates itself.
RECURSIVE ChildSlots(_, _)
ChildSlots(implementation, n) ==
    IF n = 0 THEN <<>>
    ELSE ChildSlots(implementation, n - 1)
         \o (IF implementation = "QCS" THEN <<"AgeEnfant" \o str(n)>>
             ELSE <<"AgeEnfant" \o str(n), "Frais" \o str(n), "type_garde" \o str(n)>>)

Min(a, b) == IF a < b THEN a ELSE b

Attempts(implementation, h) ==
    <<"Revenu1", "AgeAdulte1">>
    \o (IF h.spouse # None THEN <<"Revenu2", "AgeAdulte2">> ELSE <<>>)
    \o ChildSlots(implementation,
                  IF implementation = "QCS" THEN Min(Len(h.children), 5)
                  ELSE Min(h.numChildren, 5))

Located(events) ==
    LET finds == SelectSeq(events, LAMBDA e : e.op = "find")
    IN  [k \in DOMAIN finds |-> finds[k].ctl]

\* The failures that end a scrape call: navigation, the two selectors, and
\* in MFQScraperSimple the fields of the adults, which it writes unguarded.
FatalErrors(implementation) ==
    {"navigation failed", "timeout: Situation",
     "no such element: Situation", "no such element: NbEnfants"}
    \cup (IF implementation = "MFQ"
          THEN {"no such element: " \o id : id \in AdultIds} ELSE {})

\* C8: a control the robust field setter could not set (not located, or its
\* value still wrong after the scripted write), like a child slot
\* MFQScraperSimple could not write, does not abort the scrape: once the form
\* is filled every field of the household has been attempted, in order, and
\* an error the call returns is never that of such a field.
C8_FieldFailureNotFatal ==
    /\ pc \notin FillPcs /\ ~Failed => Located(log) = Attempts(impl, household)
    /\ Located(log) \in Prefixes(Attempts(impl, household))
    /\ Failed => result["error"] \in FatalErrors(impl)
    /\ call.report \in {"error", "unconfirmed"} /\ budget = MaxFaults - 1 => ~Failed

\* C8 witness: a control was not located, or kept a wrong value, and the call
\* returned the figures it extracted all the same.
C8_Witness ==
    /\ Returned /\ ~Failed /\ impl = "QCS"
    /\ call.report \in {"error", "unconfirmed"}
    /\ \E k \in DOMAIN log : log[k].op = "find" /\ log[k].val = "missing"
    /\ Located(log) = Attempts(impl, household)

\* The reading of poll k, normalized; None for a failed read.
Reading(k) == IF script[k].ok THEN Some(clean_value(script[k].value)) ELSE None

\* C9: the waiter returns success only on a poll whose normalized value is
\* the normalized value of the poll just before it.
C9_EqualsPrecedingPoll ==
    stable = Some(TRUE) =>
        /\ elapsed >= 2
        /\ Reading(elapsed) # None
        /\ Reading(elapsed) = Reading(elapsed - 1)

\* C10: with the polled sequence "0", "0", "150", "150", "150" the waiter
\* returns success at the fifth poll and at no earlier one; for every polled
\* sequence, when it returns success the value of that poll has been read on
\* at least three polls.
C10_ThirdObservation ==
    /\ script = SettlingScript =>
          /\ elapsed < 5 => stable = None
          /\ elapsed >= 5 => elapsed = 5 /\ stable = Some(TRUE)
    /\ stable = Some(TRUE) =>
          Cardinality({k \in 1..elapsed : Reading(k) = Reading(elapsed)}) >= 3

\* C10 witness: the waiter has returned success on the fifth poll of that sequence.
C10_Witness ==
    /\ script = SettlingScript
    /\ stable = Some(TRUE) /\ elapsed = 5 /\ stable_count = 2

\* C11: the control the waiter polls is the disposable-income control of the
\* household's taxYear, the one the selector pass reads for revenu_disponible
\* (RD_old for 2024, RD_new for 2025).
C11_PollsYearControl ==
    \A k \in DOMAIN log :
        WaitEvent(log[k]) =>
            log[k].ctl = selectors(household.taxYear)["revenu_disponible"]

\* C12: the waiter always terminates: whatever the polled control does, the
\* call returns (True or False) after at most MaxPolls polls, and it returns
\* False only when the bound has elapsed, no two counted repetitions having
\* been seen.
C12_WaiterTerminates ==
    /\ [](elapsed <= MaxPolls)
    /\ <>(stable # None)
    /\ [](stable = Some(FALSE) => elapsed = MaxPolls /\ stable_count < 2)

\* C12 witness: the control is missing, every read failed, and the waiter
\* returned False when the bound had elapsed.
C12_Witness ==
    /\ \A k \in DOMAIN script : ~script[k].ok
    /\ stable = Some(FALSE) /\ elapsed = MaxPolls /\ previous_value = None

\* C13: a stabilization timeout is not fatal: once the waiter has returned
\* False the extractor runs the table scan and the selector pass, and the
\* call returns a mapping without error that holds, for every key of the
\* year's table whose control shows a number, that number.
C13_TimeoutDegraded ==
    stable = Some(FALSE) =>
        /\ pc \in {"table_scan", "selector_pass", "done"}
        /\ Returned =>
              /\ ~Failed
              /\ {"table_scan", "selector_pass"} \subseteq Ops(log)
              /\ \A key \in DOMAIN selectors(household.taxYear) :
                    LET shown == _extract_numeric_value(
                                     outputs[selectors(household.taxYear)[key]])
                    IN  shown # None => key \in DOMAIN result /\ result[key] = shown[1]

\* C13 witness: the waiter timed out on a page whose controls hold figures,
\* and the call returned them.
C13_Witness ==
    /\ Returned /\ stable = Some(FALSE) /\ page = Full
    /\ "error" \notin DOMAIN result
    /\ "revenu_disponible" \in DOMAIN result

\* The identifier stems of the output controls.
Stems == {result_stems[key] : key \in DOMAIN result_stems}

YearSuffix(year) == IF year = 2024 THEN "_old" ELSE "_new"

OutputReads == SelectSeq(log, LAMBDA e : e.op = "read_output")

\* C14: the extractor reads every result key from the control whose
\* identifier is a stem followed by the suffix of the household's taxYear
\* (_old for 2024, _new for 2025); the tables of the two years have the same
\* keys and, key by key, identifiers that differ in that suffix only.
C14_TableByYear ==
    /\ DOMAIN selectors_2024 = DOMAIN selectors_2025
    /\ \A key \in DOMAIN selectors_2024 :
          \E stem \in Stems : /\ selectors_2024[key] = stem \o "_old"
                              /\ selectors_2025[key] = stem \o "_new"
    /\ \A k \in DOMAIN OutputReads :
          \E stem \in Stems :
              OutputReads[k].ctl = stem \o YearSuffix(household.taxYear)

\* What the selector pass reads for a key of the year's table: the number
\* the key's control shows, None when there is none to read.
Shown(key) ==
    _extract_numeric_value(outputs[selectors(household.taxYear)[key]])

\* C15: in QuebecCalculatorScraper's extraction, whatever subset of the output
\* controls is missing or holds unparsable text, the call returns without
\* error, every key of the year's table has been read, each key whose control
\* gives no number is absent from the mapping returned, and every other key
\* holds its parsed value.
C15_KeyFailuresIsolated ==
    impl = "QCS" /\ Returned =>
        /\ ~Failed
        /\ [k \in DOMAIN OutputReads |-> OutputReads[k].val] = selector_keys
        /\ \A key \in DOMAIN selectors(household.taxYear) :
              IF Shown(key) = None
              THEN key \notin DOMAIN result
              ELSE key \in DOMAIN result /\ result[key] = Shown(key)[1]

\* The table of the household's year in the scraper that runs.
YearTable ==
    IF impl = "MFQ" THEN result_ids(household.taxYear) ELSE selectors(household.taxYear)

\* The control of that id is on the page and shows the no-value dash.
DashShown(id) ==
    /\ outputs[id] # None
    /\ outputs[id][1].text \in {<<HorizontalBar>>, <<EmDash>>, <<Hyphen>>}

\* C16: in the mapping either scraper returns, a key whose control shows the
\* dash marker is present and holds null, and a key whose control could not be
\* located is missing, so that the two outcomes can be told apart.
C16_NullVersusMissing ==
    impl \in Implementations /\ Returned /\ ~Failed =>
        \A key \in DOMAIN YearTable :
            /\ DashShown(YearTable[key]) => key \in DOMAIN result /\ result[key] = None
            /\ outputs[YearTable[key]] = None => key \notin DOMAIN result

\* What the table scan stores on the page, starting from the empty mapping.
Scanned == IF cells = None THEN Empty ELSE scan(Empty, cells[1])

\* C17: for every key of the year's table that the table scan stored, the
\* mapping QuebecCalculatorScraper returns holds the outcome of the selector
\* pass for that key: the number its control shows, or nothing when the
\* control gives none.
C17_SelectorPassWins ==
    impl = "QCS" /\ Returned /\ ~Failed =>
        \A key \in DOMAIN Scanned \cap DOMAIN selectors(household.taxYear) :
            IF Shown(key) = None
            THEN key \notin DOMAIN result
            ELSE result[key] = Shown(key)[1]

\* The text the disposable-income control holds, on a page that has one.
RDText == page.shown["RD"][1].text

\* The scraper has parsed the text of a page of TextPages.
Parsed == impl \in Implementations /\ Returned /\ ~Failed /\ page \in TextPages

NoDigit(text) == \A k \in DOMAIN text : ~IsDigit(text[k])

\* C18: the parser of either scraper gives no value for the empty text, a
\* text of spaces, a text of dash glyphs (em dash, en dash, horizontal bar,
\* hyphen) and any text without a digit; it reads "1 234" as 1234, "-318" and
\* "−318" as -318, and every amount written with space separators and a comma
\* decimal as its number, negated behind a hyphen or a minus sign.
C18_ParserRules ==
    Parsed =>
        /\ NoDigit(RDText) => "revenu_disponible" \notin DOMAIN result
        /\ \A a \in UnsignedAmounts \cup NegativeAmounts :
              RDText = a.text =>
                  /\ "revenu_disponible" \in DOMAIN result
                  /\ result["revenu_disponible"] = a.value

\* C19: the parser of either scraper reads an amount written between
\* parentheses as the negative of that amount: "(103,32)" as -103.32 and
\* "(123)" as -123.
C19_ParenthesesNegate ==
    Parsed =>
        \A a \in ParenthesizedAmounts :
            RDText = a.text =>
                /\ "revenu_disponible" \in DOMAIN result
                /\ result["revenu_disponible"] = a.value

\* The household declares more children than the form has slots.
TooManyChildren ==
    Len(household.children) > 5 \/ household.numChildren > 5

\* The number of the child slot a control belongs to, 0 for any other control.
SlotOf(id) ==
    IF id \in ChildIds
    THEN CHOOSE n \in 1..MaxChildren :
            id \in {"AgeEnfant" \o str(n), "Frais" \o str(n), "type_garde" \o str(n)}
    ELSE 0

\* C20: whatever count a household declares and however long its children
\* list, the form filler touches child slots 1 to 5 only and writes in slot n
\* the age of the n-th child of the list; and a household with more than 5
\* children, on a page that commits no fault, gets its figures, not an error.
C20_AtMostFiveSlots ==
    /\ \A k \in DOMAIN log :
          LET n == SlotOf(log[k].ctl)
          IN  /\ n <= 5
              /\ /\ n > 0 /\ n <= Len(household.children)
                 /\ household.children[n].age # None
                 /\ log[k].op \in {"send_keys", "js_set"}
                 /\ log[k].ctl = "AgeEnfant" \o str(n)
                 => log[k].val = str(household.children[n].age[1])
    /\ TooManyChildren /\ Returned /\ budget = MaxFaults => ~Failed

\* C21: when the same scraper is called twice in a row with the same
\* household against an unchanged page, the second call ends as the first
\* did: the same mapping is returned, after the same interactions, the same
\* number of polls and the same verdict of the waiter.
C21_SecondCallEqualsFirst ==
    earlier # <<>> /\ Returned =>
        /\ result = earlier[1].result
        /\ log = earlier[1].log
        /\ stable = earlier[1].stable
        /\ elapsed = earlier[1].elapsed

\* C21 witness: QuebecCalculatorScraper has returned figures a second time,
\* its waiter having seen the output settle in both calls.
C21_Witness ==
    /\ earlier # <<>> /\ Returned /\ impl = "QCS"
    /\ stable = Some(TRUE) /\ earlier[1].stable = Some(TRUE)
    /\ "revenu_disponible" \in DOMAIN result

\* The failures of the pipeline itself in QuebecCalculatorScraper: navigation,
\* the situation selector never appearing or not selectable, the
\* children-count control not found.
PipelineFailures ==
    {"navigation failed", "timeout: Situation",
     "no such element: Situation", "no such element: NbEnfants"}

\* C22: in QuebecCalculatorScraper, when the situation selector never appears
\* the call returns a mapping that holds the error and nothing else, having
\* written no form field and read no output control; and an error is only
\* ever that of a pipeline failure: a waiter that timed out and an extraction
\* that has run never end in an error.
C22_OnlyPipelineFailuresAbort ==
    impl = "QCS" =>
        /\ Failed =>
              /\ DOMAIN result = {"error"}
              /\ result["error"] \in PipelineFailures
              /\ \A k \in DOMAIN log : ~WaitEvent(log[k]) /\ ~ExtractEvent(log[k])
        /\ Failed /\ result["error"] = "timeout: Situation" => log = <<>>
        /\ stable = Some(FALSE) => ~Failed
        /\ "selector_pass" \in Ops(log) => ~Failed

\* C22 witness: the situation selector never appeared and the call returned
\* the error without having touched the page.
C22_Witness ==
    /\ impl = "QCS" /\ Failed /\ result["error"] = "timeout: Situation"
    /\ log = <<>>

\* The number of children of the household: the length of its children list
\* when it has one, the count it declares otherwise.
ChildrenCount ==
    IF household.children # <<>> THEN Len(household.children) ELSE household.numChildren

\* The options that stand for n children in the children-count control.
CountLabels(n) ==
    {nb_enfants_option(n)}
    \cup (IF n \in DOMAIN children_options THEN {children_options[n]} ELSE {})

\* The child slots the form filler has touched.
SlotsTouched == {SlotOf(log[k].ctl) : k \in DOMAIN log} \ {0}

\* C23: in every fill, the option selected in the children-count control
\* stands for len(children) when the household has a children list and for
\* numChildren otherwise; MFQScraperSimple selects the single-parent label for
\* an adult alone and not retired exactly when that number is positive; and,
\* once the form is filled, the slots touched are those of that many children
\* (5 at most).
C23_CountFromList ==
    /\ \A k \in DOMAIN log :
          /\ log[k].op = "select" /\ log[k].ctl = "NbEnfants"
             => log[k].val \in CountLabels(ChildrenCount)
          /\ /\ impl = "MFQ" /\ log[k].op = "select" /\ log[k].ctl = "Situation"
             /\ household.spouse = None /\ ~household.primaryPerson.isRetired
             => (log[k].val = "Famille monoparentale" <=> ChildrenCount > 0)
    /\ pc \notin FillPcs /\ ~Failed => SlotsTouched = 1..Min(ChildrenCount, 5)

\* What the form filler has set in child slot n, in order.
SlotSettings(n) ==
    SelectSeq(Settings(log), LAMBDA setting : SlotOf(setting[1]) = n)

\* The controls of child slot n the form filler has looked for, in order.
SlotLocated(n) ==
    SelectSeq(Located(log), LAMBDA id : SlotOf(id) = n)

\* What child slot n is to be set to for the n-th child of the list: its age,
\* its childcare expense or 0, and its childcare type when it declares one.
SlotExpected(n) ==
    LET child == household.children[n]
    IN  <<<<"AgeEnfant" \o str(n), str(child.age[1])>>,
          <<"Frais" \o str(n),
            IF child.childcare_expenses # None
            THEN str(child.childcare_expenses[1]) ELSE "0">>>>
        \o (IF child.childcare_type # None
            THEN <<<<"type_garde" \o str(n), child.childcare_type[1]>>>>
            ELSE <<>>)

\* C24: once the form is filled, every child slot touched whose child is in
\* the list and declares an age has had its three controls looked for in the
\* order age, childcare expense, childcare type, whatever failed on the way;
\* and when the page committed no fault the slot was set to the child's age,
\* then to its expense or 0, then to its type if it declares one.
C24_SlotAgeExpenseType ==
    pc \notin FillPcs /\ ~Failed =>
        \A n \in SlotsTouched :
            n <= Len(household.children) /\ household.children[n].age # None =>
                /\ SlotLocated(n) = <<"AgeEnfant" \o str(n), "Frais" \o str(n),
                                      "type_garde" \o str(n)>>
                /\ budget = MaxFaults => SlotSettings(n) = SlotExpected(n)

\* C25: in QuebecCalculatorScraper, nothing is read by the selector pass
\* before the table scan has run; once the scan has run the selector pass is
\* what follows; and the call whose waiter has returned ends without error,
\* every key of the year's table read in order, whether the scan stored
\* something, found no cell, met a cell it could not read, or could not list
\* the cells at all.
C25_ScanThenSelectors ==
    impl = "QCS" =>
        /\ \A k \in DOMAIN log :
              log[k].op \in {"read_output", "selector_pass"} =>
                  \E j \in 1..(k - 1) : log[j].op = "table_scan"
        /\ "table_scan" \in Ops(log) => pc \in {"selector_pass", "done"}
        /\ stable # None /\ Returned =>
              /\ ~Failed
              /\ [k \in DOMAIN OutputReads |-> OutputReads[k].val] = selector_keys
              /\ log[Len(log)].op = "selector_pass"

\* C25 witness: the cells could not be listed, and the selector pass has read
\* its keys all the same.
C25_Witness ==
    /\ impl = "QCS" /\ Returned /\ ~Failed /\ cells = None
    /\ "table_scan" \in Ops(log) /\ Len(OutputReads) = Len(selector_keys)

\* The form filler has written a control of the spouse.
SpouseWritten ==
    \E k \in DOMAIN log : log[k].ctl \in SpouseIds /\ log[k].op \in WriteOps

\* The label selected in the situation control is one of the two of a couple.
CoupleSelected ==
    \E k \in DOMAIN log :
        /\ log[k].op = "select" /\ log[k].ctl = "Situation"
        /\ log[k].val \in {"Couple", "Couple de retraités"}

\* C26: once the form is filled, the controls of the spouse have been written
\* exactly when the household has a spouse, and the household has a spouse
\* exactly when the situation selected is that of a couple or of a retired
\* couple.
C26_SpouseIffCouple ==
    pc \notin FillPcs /\ ~Failed =>
        /\ SpouseWritten <=> household.spouse # None
        /\ household.spouse # None <=> CoupleSelected

\* C27: QuebecCalculatorScraper's parser negates for a hyphen only when the
\* hyphen leads the text: a text without minus sign whose hyphens all come
\* after its first character is read as a number that is not negative.
C27_OnlyLeadingHyphenNegates ==
    /\ Parsed /\ impl = "QCS"
    /\ RDText # <<>> /\ Head(RDText) # Hyphen
    /\ Hyphen \in Range(RDText) /\ MinusSign \notin Range(RDText)
    /\ "revenu_disponible" \in DOMAIN result
    => result["revenu_disponible"][1] >= 0

\* The polled control shows nothing but "0" or an empty value during the wait.
NeverAValue ==
    \A k \in DOMAIN script : script[k].ok /\ script[k].value \in {<<>>, <<"0">>}

\* The reading of the next poll is empty or "0".
ReadsNoValue ==
    /\ pc = "wait" /\ elapsed < MaxPolls
    /\ script[elapsed + 1].ok /\ script[elapsed + 1].value \in {<<>>, <<"0">>}

\* C28: a poll that reads an empty value or "0" changes neither the count
\* of stable readings nor the remembered previous value, and does not end the
\* wait; and when the control shows nothing else during the whole wait, the
\* waiter never returns success and does return failure, at the timeout.
C28_NoValueIgnored ==
    /\ [][ReadsNoValue =>
            /\ stable_count' = stable_count
            /\ previous_value' = previous_value
            /\ stable' = stable]_vars
    /\ [](NeverAValue => stable # Some(TRUE) /\ stable_count = 0 /\ previous_value = None)
    /\ [](NeverAValue /\ stable # None => elapsed = MaxPolls)
    /\ (NeverAValue => <>(stable = Some(FALSE)))

\* C28 witness: the control showed nothing but "0" and empty values, some of
\* each, and the waiter returned failure at the timeout.
C28_Witness ==
    /\ NeverAValue /\ stable = Some(FALSE) /\ elapsed = MaxPolls
    /\ \E j, k \in DOMAIN script : script[j].value = <<>> /\ script[k].value = <<"0">>

\* The form filler has selected an option of the children-count control.
CountSelected ==
    \E k \in DOMAIN log : log[k].op = "select" /\ log[k].ctl = "NbEnfants"

\* C29: QuebecCalculatorScraper makes no selection in the children-count
\* control when the number of children is outside 1..5: with no child it
\* touches neither that control nor any child slot; with a list of more than
\* 5 children it still writes, once the form is filled, the ages of the first
\* 5 children in slots 1 to 5, and nothing in a further slot.
C29_NoSelectionOutsideRange ==
    impl = "QCS" =>
        /\ num_children(household) \notin 1..5 => ~CountSelected
        /\ num_children(household) = 0 =>
              \A k \in DOMAIN log : log[k].ctl \notin {"NbEnfants"} \cup ChildIds
        /\ Len(household.children) > 5 /\ pc \notin FillPcs /\ ~Failed =>
              /\ SlotsTouched = 1..5
              /\ budget = MaxFaults =>
                    \A n \in 1..5 :
                        SlotSettings(n) =
                            <<<<"AgeEnfant" \o str(n),
                                str(IF household.children[n].age # None
                                    THEN household.children[n].age[1] ELSE 0)>>>>

\* C29 witness: QuebecCalculatorScraper has filled the form for a household
\* with more than 5 children on a page that committed no fault.
C29_Witness ==
    /\ impl = "QCS" /\ Len(household.children) > 5
    /\ pc \notin FillPcs /\ ~Failed /\ budget = MaxFaults
    /\ ~CountSelected /\ SlotsTouched = 1..5

\* What one call of the robust field setter did: the control was found, the
\* TAB key was sent, the change handler and recalculation script was run.
Found(outcome) == outcome.trace[1].val = "found"
Tabbed(outcome) == "tab" \in Ops(outcome.trace)
Notified(outcome) == "js_notify" \in Ops(outcome.trace)

\* Nothing was written nor notified in a call whose control does not exist.
NothingWhenMissing(outcome) ==
    ~Found(outcome) => Ops(outcome.trace) = {"find"}

\* The rule as stated: on a control that exists exactly one of the two
\* notifications is made, TAB after a first read-back equal to the value and
\* the script after one that differs.
ExactlyOneRoute(outcome) ==
    /\ Found(outcome) =>
          /\ Tabbed(outcome) # Notified(outcome)
          /\ Tabbed(outcome) <=> Reads(outcome.trace)[1].val = outcome.value
    /\ NothingWhenMissing(outcome)

\* The rule the code follows: never both notifications; TAB only after a
\* first read-back equal to the value, the script only after one that
\* differs; exactly one of them when no driver call raised.
AtMostOneRoute(outcome) ==
    /\ ~(Tabbed(outcome) /\ Notified(outcome))
    /\ Tabbed(outcome) => Reads(outcome.trace)[1].val = outcome.value
    /\ Notified(outcome) => Reads(outcome.trace)[1].val # outcome.value
    /\ outcome.report # "error" =>
          /\ Tabbed(outcome) # Notified(outcome)
          /\ Tabbed(outcome) <=> Reads(outcome.trace)[1].val = outcome.value
    /\ NothingWhenMissing(outcome)

\* C30 as stated: every call of the robust field setter, in either scraper
\* that has it and whatever the page answers, makes exactly one of the two
\* notifications on a control that exists, and writes and notifies nothing
\* when the control does not exist.
C30_ExactlyOneRoute_stated ==
    call # NoCall =>
        /\ ExactlyOneRoute(call)
        /\ \A env \in FieldEnvs(call.value, MaxFaults) :
              ExactlyOneRoute(root_fill_field(call.selector, call.value, env))

\* C30: every call of the robust field setter, in either scraper that has it
\* and whatever the page answers, makes at most one of the two notifications:
\* TAB only when the first read-back equals the value, the script only when
\* it differs, exactly one of the two when no driver call raised, and none
\* when a call raised before the notification; it writes and notifies
\* nothing when the control does not exist.
C30_AtMostOneRoute ==
    call # NoCall =>
        /\ AtMostOneRoute(call)
        /\ \A env \in FieldEnvs(call.value, MaxFaults) :
              AtMostOneRoute(root_fill_field(call.selector, call.value, env))

\* C30 witness: a control that exists kept a wrong value after the standard
\* write, and the setter ran the script and did not send TAB.
C30_Witness ==
    /\ call # NoCall /\ Found(call) /\ call.report # "error"
    /\ Notified(call) /\ ~Tabbed(call)
    /\ Reads(call.trace)[1].val # call.value

====
